---- MODULE Spec2Model ----
(***************************************************************************)
(* Campus Lost & Found: the Express request handlers over the users,       *)
(* items and universities collections, with the session store.             *)
(* The handlers modelled are those of the latest variant of the server     *)
(* (the one with the University model and the edit/update routes).         *)
(***************************************************************************)
EXTENDS Integers, Sequences, FiniteSets, TLC

VARIABLES users, session, pending, pendingUni, items, nextItemId, now, universities, denied, resp

vars ==
    <<users, session, pending, pendingUni, items, nextItemId, now, universities, denied, resp>>

(***************************************************************************)
(* Bounds of the model.                                                    *)
(***************************************************************************)
NumSessions == 2      \* browser sessions
NumBrowsing == 1      \* of which this many use the item pages
MaxItems == 2         \* items ever reported
MaxTime == 1          \* the clock runs from 0 to this

Sessions == 1..NumSessions
Browsers == {s \in Sessions : s <= NumBrowsing}
ItemIds == 1..MaxItems

(***************************************************************************)
(* Strings are sequences of characters, so that trimming, letter case and  *)
(* regular-expression matching are computed, not assumed.                  *)
(***************************************************************************)
Lower(c) ==
    CASE c = "A" -> "a"
      [] c = "B" -> "b"
      [] c = "M" -> "m"
      [] c = "S" -> "s"
      [] OTHER -> c

RECURSIVE TrimLeft(_)
TrimLeft(s) == IF s # <<>> /\ Head(s) = " " THEN TrimLeft(Tail(s)) ELSE s

RECURSIVE TrimRight(_)
TrimRight(s) ==
    IF s # <<>> /\ s[Len(s)] = " " THEN TrimRight(SubSeq(s, 1, Len(s) - 1)) ELSE s

\* mongoose `trim: true` setter of a String path
Trim(s) == TrimRight(TrimLeft(s))

\* one pattern character against one subject character under option 'i';
\* "." is the regular-expression wildcard
RegexCharMatches(p, c) == p = "." \/ Lower(p) = Lower(c)

RegexMatchesAt(pat, s, k) ==
    /\ k + Len(pat) - 1 <= Len(s)
    /\ \A j \in 1..Len(pat) : RegexCharMatches(pat[j], s[k + j - 1])

\* { $regex: pat, $options: 'i' }: an unanchored, case-insensitive match
RegexSearch(pat, s) == \E k \in 1..(Len(s) + 1) : RegexMatchesAt(pat, s, k)

(***************************************************************************)
(* ObjectIds are numbers; a session that went through the session store    *)
(* holds the id as its string form.                                        *)
(***************************************************************************)
NoOid == 0            \* what a path holds when no ObjectId could be cast for it
OidToString(oid) == <<oid>>
CastObjectId(str) == IF Len(str) = 1 THEN str[1] ELSE NoOid

NoUser == [id |-> <<>>, name |-> "", email |-> ""]
SessionUser(u) == [id |-> OidToString(u.id), name |-> u.name, email |-> u.email]

\* a gate that lets every request through
AuthenticatedAlways(s) == s \in Sessions

\* isAuthenticated, and the inline check of GET /items
Authenticated(s) == session[s] # NoUser

NoResp == [op |-> "none", sid |-> 0, status |-> 0, loc |-> "", id |-> 0, list |-> <<>>]
Reply(op, s, status, loc) ==
    [op |-> op, sid |-> s, status |-> status, loc |-> loc, id |-> 0, list |-> <<>>]
ReplyItem(op, s, status, loc, id) ==
    [op |-> op, sid |-> s, status |-> status, loc |-> loc, id |-> id, list |-> <<>>]
ReplyList(op, s, list) ==
    [op |-> op, sid |-> s, status |-> 200, loc |-> "", id |-> 0, list |-> list]

(***************************************************************************)
(* User repository.                                                        *)
(***************************************************************************)
Names == {"Ann", ""}
Emails == {"ann@x.edu", "bob@x.edu", ""}
Passwords == {"pw1", "pw2", ""}
SignupBodies == [name : Names, email : Emails, password : Passwords]
NoBody == [name |-> "", email |-> "", password |-> ""]

\* a lookup that never finds the account
FindUserByEmailNone(email) == {}

\* User.findOne({ email })
FindUserByEmail(email) == {i \in 1..Len(users) : users[i].email = email}

\* what POST /signup puts in the password path of the new document
StoredPassword(password) == password

\* a login that checks the email only
PasswordMatchesAny(user, password) == TRUE

\* POST /login: user && user.password === password
PasswordMatches(user, password) == user.password = password

NewUser(body) ==
    [id |-> Len(users) + 1, name |-> body.name, email |-> body.email,
     password |-> StoredPassword(body.password)]

\* POST /signup up to the answer of User.findOne
SignupFind(s, body) ==
    /\ pending[s] = NoBody
    /\ IF body.email = "" \/ body.name = "" \/ body.password = ""
       THEN /\ resp' = Reply("signup", s, 200, "fields_required")
            /\ UNCHANGED pending
       ELSE IF FindUserByEmail(body.email) # {}
       THEN /\ resp' = Reply("signup", s, 302, "/login?error=email_exists")
            /\ UNCHANGED pending
       ELSE /\ pending' = [pending EXCEPT ![s] = body]
            /\ resp' = Reply("signup-find", s, 0, "")
    /\ UNCHANGED <<users, session, pendingUni, items, nextItemId, now, universities, denied>>

\* a collection without the index
DuplicateKeyNever(email) == FALSE

\* the unique index on email: an insert of a document whose email is already
\* stored is rejected with a duplicate-key error
DuplicateKey(email) == \E i \in 1..Len(users) : users[i].email = email

\* POST /signup from newUser.save(): the unique index on email rejects a
\* second document with the same email
SignupSave(s) ==
    /\ pending[s] # NoBody
    /\ pending' = [pending EXCEPT ![s] = NoBody]
    /\ IF DuplicateKey(pending[s].email)
       THEN /\ resp' = Reply("signup", s, 500, "duplicate_key")
            /\ UNCHANGED <<users, session>>
       ELSE /\ users' = Append(users, NewUser(pending[s]))
            /\ session' = [session EXCEPT ![s] = SessionUser(NewUser(pending[s]))]
            /\ resp' = Reply("signup", s, 302, "/")
    /\ UNCHANGED <<pendingUni, items, nextItemId, now, universities, denied>>

\* POST /login
Login(s, email, password) ==
    /\ IF \E i \in FindUserByEmail(email) : PasswordMatches(users[i], password)
       THEN LET i == CHOOSE i \in FindUserByEmail(email) : TRUE
            IN  /\ session' = [session EXCEPT ![s] = SessionUser(users[i])]
                /\ resp' = Reply("login", s, 302, "/")
       ELSE /\ resp' = Reply("login", s, 200, "invalid")
            /\ UNCHANGED session
    /\ UNCHANGED <<users, pending, pendingUni, items, nextItemId, now, universities, denied>>

\* a logout that answers but leaves the session as it is
LogoutKeepsSession(s) ==
    /\ resp' = Reply("logout", s, 302, "/")
    /\ UNCHANGED <<users, session, pending, pendingUni, items, nextItemId, now, universities, denied>>

\* GET /logout
Logout(s) ==
    /\ session' = [session EXCEPT ![s] = NoUser]
    /\ resp' = Reply("logout", s, 302, "/")
    /\ UNCHANGED <<users, pending, pendingUni, items, nextItemId, now, universities, denied>>

(***************************************************************************)
(* Item repository.  An item document, as stored (after the schema's       *)
(* setters), is a record; the collection is a set of them.                 *)
(***************************************************************************)
BadId == 0    \* an :id that is no ObjectId string: findById rejects with a CastError
Statuses == {"Lost", "Found"}
Urls == {"url1", "url2"}
\* what became of req.file: no file in the request ("none"), a file whose
\* upload failed ("fail"), or a file whose upload returned this secure_url
Uploads == {"none", "fail"} \cup Urls

V1 == [itemName |-> <<"A", "b">>, description |-> <<"x">>, status |-> "Lost",
       category |-> <<"x">>, university |-> <<"M">>,
       contactEmail |-> "c", contactPhone |-> "1"]
V2 == [itemName |-> <<" ", "b">>, description |-> <<"x">>, status |-> "Found",
       category |-> <<"x">>, university |-> <<"S", " ">>,
       contactEmail |-> "c", contactPhone |-> "1"]
ValidForms == {V1, V2}
InvalidForms ==
    { [V1 EXCEPT !.itemName = <<>>], [V1 EXCEPT !.itemName = <<" ">>],
      [V1 EXCEPT !.description = <<>>], [V1 EXCEPT !.status = ""],
      [V1 EXCEPT !.status = "Stolen"], [V1 EXCEPT !.category = <<>>],
      [V1 EXCEPT !.university = <<>>], [V1 EXCEPT !.contactEmail = ""],
      [V1 EXCEPT !.contactPhone = ""] }
Forms == ValidForms \cup InvalidForms

QueryUniversities == {<<>>, <<"M">>, <<"S">>}
QueryStatuses == {"", "Lost", "Found"}
QuerySearches == {<<>>, <<"a">>, <<".">>}

ItemIdsOf(S) == {i.id : i \in S}

\* a lookup that never finds the item
FindItemByIdNone(id) == {}

\* Item.findById(id): the set holding the document, or the empty set for null
FindItemById(id) == {i \in items : i.id = id}

\* the document new Item({...}) builds from a form, after the setters
ItemDoc(id, form, imageUrl, owner, createdAt) ==
    [id |-> id, name |-> Trim(form.itemName), description |-> Trim(form.description),
     status |-> form.status, category |-> Trim(form.category),
     university |-> Trim(form.university), imageUrl |-> imageUrl,
     contactEmail |-> form.contactEmail, contactPhone |-> form.contactPhone,
     reportedBy |-> owner, createdAt |-> createdAt]

\* an update that leaves the status as it was
AssignFieldsKeepStatus(item, form) ==
    [item EXCEPT !.name = Trim(form.itemName), !.description = Trim(form.description),
                 !.category = Trim(form.category),
                 !.university = Trim(form.university),
                 !.contactEmail = form.contactEmail, !.contactPhone = form.contactPhone]

\* the assignments of POST /items/:id/update to the loaded document
AssignFields(item, form) ==
    [item EXCEPT !.name = Trim(form.itemName), !.description = Trim(form.description),
                 !.status = form.status, !.category = Trim(form.category),
                 !.university = Trim(form.university),
                 !.contactEmail = form.contactEmail, !.contactPhone = form.contactPhone]

\* a schema without validators
ValidItemLax(doc) == TRUE

\* ItemSchema validation run by save()
ValidItem(doc) ==
    /\ doc.name # <<>>
    /\ doc.description # <<>>
    /\ doc.status \in Statuses
    /\ doc.category # <<>>
    /\ doc.university # <<>>
    /\ doc.imageUrl # ""
    /\ doc.contactEmail # ""
    /\ doc.contactPhone # ""
    /\ doc.reportedBy # NoOid

\* a handler without the ownership check
NotOwnerNever(item, s) == FALSE

\* item.reportedBy.toString() !== req.session.user.id
NotOwner(item, s) == OidToString(item.reportedBy) # session[s].id

\* .sort({ createdAt: -1 }): every order of S that is newest first; documents
\* with equal createdAt come in an order the database chooses
NewestFirst(S) ==
    {q \in [1..Cardinality(S) -> ItemIdsOf(S)] :
        /\ \A a, b \in 1..Cardinality(S) : a # b => q[a] # q[b]
        /\ \A a, b \in 1..Cardinality(S) :
              a < b => \A x, y \in S : x.id = q[a] /\ y.id = q[b] => x.createdAt >= y.createdAt}

\* a filter that leaves the university out
ItemsQueryAnyUniversity(university, status, search) ==
    {i \in items :
        /\ (status # "" => i.status = status)
        /\ (search # <<>> => RegexSearch(search, i.name))}

\* the filter GET /items builds from the query string
ItemsQuery(university, status, search) ==
    {i \in items :
        /\ i.university = university
        /\ (status # "" => i.status = status)
        /\ (search # <<>> => RegexSearch(search, i.name))}

\* a query that leaves the owner out
OwnerQueryAll(s) == items

\* Item.find({ reportedBy: req.session.user.id })
OwnerQuery(s) == {i \in items : i.reportedBy = CastObjectId(session[s].id)}

UNCH_ITEMS == UNCHANGED <<users, session, pending, pendingUni, items, nextItemId, now, universities, denied>>

\* GET /items
ListItems(s, university, status, search) ==
    /\ IF ~Authenticated(s)
       THEN resp' = Reply("items", s, 302, "/login?error=must_login")
       ELSE IF university = <<>>
       THEN resp' = Reply("items", s, 302, "/")
       ELSE \E q \in NewestFirst(ItemsQuery(university, status, search)) :
               resp' = ReplyList("items", s, q)
    /\ UNCH_ITEMS

\* GET /item/:id
GetItem(s, id) ==
    /\ IF id = BadId
       THEN resp' = ReplyItem("item", s, 500, "", id)
       ELSE IF FindItemById(id) = {}
       THEN resp' = ReplyItem("item", s, 404, "", id)
       ELSE resp' = ReplyItem("item", s, 200, "", id)
    /\ UNCH_ITEMS

\* GET /report
ReportForm(s) ==
    /\ IF ~Authenticated(s)
       THEN resp' = Reply("report-form", s, 302, "/login")
       ELSE resp' = Reply("report-form", s, 200, "")
    /\ UNCH_ITEMS

\* POST /report
Report(s, form, upload) ==
    /\ IF ~Authenticated(s)
       THEN /\ resp' = Reply("report", s, 302, "/login")
            /\ UNCHANGED <<items, nextItemId>>
       ELSE IF upload \notin Urls
       THEN /\ resp' = Reply("report", s, 500, "")
            /\ UNCHANGED <<items, nextItemId>>
       ELSE LET doc == ItemDoc(nextItemId, form, upload, CastObjectId(session[s].id), now)
            IN  IF ~ValidItem(doc)
                THEN /\ resp' = Reply("report", s, 500, "")
                     /\ UNCHANGED <<items, nextItemId>>
                ELSE /\ nextItemId <= MaxItems
                     /\ items' = items \cup {doc}
                     /\ nextItemId' = nextItemId + 1
                     /\ resp' = ReplyItem("report", s, 302, "/items", doc.id)
    /\ UNCHANGED <<users, session, pending, pendingUni, now, universities, denied>>

\* GET /my-posts
MyPosts(s) ==
    /\ IF ~Authenticated(s)
       THEN resp' = Reply("my-posts", s, 302, "/login")
       ELSE \E q \in NewestFirst(OwnerQuery(s)) : resp' = ReplyList("my-posts", s, q)
    /\ UNCH_ITEMS

\* GET /items/:id/edit
EditForm(s, id) ==
    /\ IF ~Authenticated(s)
       THEN resp' = ReplyItem("edit-form", s, 302, "/login", id)
       ELSE IF id = BadId
       THEN resp' = ReplyItem("edit-form", s, 500, "", id)
       ELSE IF FindItemById(id) = {}
       THEN resp' = ReplyItem("edit-form", s, 404, "", id)
       ELSE IF \E i \in FindItemById(id) : NotOwner(i, s)
       THEN resp' = ReplyItem("edit-form", s, 403, "", id)
       ELSE resp' = ReplyItem("edit-form", s, 200, "", id)
    /\ UNCH_ITEMS

\* an update that writes the assignments through to the stored document
\* before the upload and the validation
UpdateItemWriteThrough(s, id, form, upload) ==
    /\ IF ~Authenticated(s)
       THEN /\ resp' = ReplyItem("update", s, 302, "/login", id)
            /\ UNCHANGED items
       ELSE IF id = BadId
       THEN /\ resp' = ReplyItem("update", s, 500, "", id)
            /\ UNCHANGED items
       ELSE IF FindItemById(id) = {}
       THEN /\ resp' = ReplyItem("update", s, 404, "", id)
            /\ UNCHANGED items
       ELSE IF \E i \in FindItemById(id) : NotOwner(i, s)
       THEN /\ resp' = ReplyItem("update", s, 403, "", id)
            /\ UNCHANGED items
       ELSE LET old == CHOOSE i \in FindItemById(id) : TRUE
                assigned == AssignFields(old, form)
                doc == IF upload \in Urls THEN [assigned EXCEPT !.imageUrl = upload]
                       ELSE assigned
            IN  IF upload = "fail" \/ ~ValidItem(doc)
                THEN /\ items' = (items \ {old}) \cup {assigned}
                     /\ resp' = ReplyItem("update", s, 500, "", id)
                ELSE /\ items' = (items \ {old}) \cup {doc}
                     /\ resp' = ReplyItem("update", s, 302, "/my-posts", id)
    /\ UNCHANGED <<users, session, pending, pendingUni, nextItemId, now, universities, denied>>

\* POST /items/:id/update
UpdateItem(s, id, form, upload) ==
    /\ IF ~Authenticated(s)
       THEN /\ resp' = ReplyItem("update", s, 302, "/login", id)
            /\ UNCHANGED items
       ELSE IF id = BadId
       THEN /\ resp' = ReplyItem("update", s, 500, "", id)
            /\ UNCHANGED items
       ELSE IF FindItemById(id) = {}
       THEN /\ resp' = ReplyItem("update", s, 404, "", id)
            /\ UNCHANGED items
       ELSE IF \E i \in FindItemById(id) : NotOwner(i, s)
       THEN /\ resp' = ReplyItem("update", s, 403, "", id)
            /\ UNCHANGED items
       ELSE IF upload = "fail"
       THEN /\ resp' = ReplyItem("update", s, 500, "", id)
            /\ UNCHANGED items
       ELSE LET old == CHOOSE i \in FindItemById(id) : TRUE
                assigned == AssignFields(old, form)
                doc == IF upload \in Urls THEN [assigned EXCEPT !.imageUrl = upload]
                       ELSE assigned
            IN  IF ~ValidItem(doc)
                THEN /\ resp' = ReplyItem("update", s, 500, "", id)
                     /\ UNCHANGED items
                ELSE /\ items' = (items \ {old}) \cup {doc}
                     /\ resp' = ReplyItem("update", s, 302, "/my-posts", id)
    /\ UNCHANGED <<users, session, pending, pendingUni, nextItemId, now, universities, denied>>

\* POST /items/:id/delete
DeleteItem(s, id) ==
    /\ IF ~Authenticated(s)
       THEN /\ resp' = ReplyItem("delete", s, 302, "/login", id)
            /\ UNCHANGED items
       ELSE IF id = BadId
       THEN /\ resp' = ReplyItem("delete", s, 500, "", id)
            /\ UNCHANGED items
       ELSE IF FindItemById(id) = {}
       THEN /\ resp' = ReplyItem("delete", s, 404, "", id)
            /\ UNCHANGED items
       ELSE IF \E i \in FindItemById(id) : NotOwner(i, s)
       THEN /\ resp' = ReplyItem("delete", s, 403, "", id)
            /\ UNCHANGED items
       ELSE /\ items' = items \ FindItemById(id)
            /\ resp' = ReplyItem("delete", s, 302, "/my-posts", id)
    /\ UNCHANGED <<users, session, pending, pendingUni, nextItemId, now, universities>>

\* the seed script's documents: new Item({...}) with a `contact` path the
\* schema does not have (dropped), so without contactEmail and contactPhone,
\* under a fresh ObjectId that is no user's
DummyUserId == 99
SeedForm == [V1 EXCEPT !.contactEmail = "", !.contactPhone = ""]

\* the seed script: Item.deleteMany({}), then item.save() for each document;
\* a save that fails validation rejects seedDB, which ends the script (the
\* variant that only clears the collection ends after deleteMany)
SeedDB ==
    /\ items # {}
    /\ LET doc == ItemDoc(nextItemId, SeedForm, "url1", DummyUserId, now)
       IN  IF ValidItem(doc) /\ nextItemId <= MaxItems
           THEN /\ items' = {doc}
                /\ nextItemId' = nextItemId + 1
           ELSE /\ items' = {}
                /\ UNCHANGED nextItemId
    /\ resp' = Reply("seed", 0, 0, "")
    /\ UNCHANGED <<users, session, pending, pendingUni, now, universities, denied>>

\* the server's clock, read by the timestamps plugin
Tick ==
    /\ now < MaxTime
    /\ now' = now + 1
    /\ UNCHANGED <<users, session, pending, pendingUni, items, nextItemId, universities, denied, resp>>

(***************************************************************************)
(* University registry.                                                    *)
(***************************************************************************)
NoName == <<"?">>     \* no add-university request in flight
UniNames == {<<>>, <<"M">>, <<"m">>, <<"m", " ">>, <<"M", " ">>, <<" ">>, <<".">>}

\* new RegExp(`^${newUniversity}$`, 'i') against a stored name
RegexFullMatch(pat, s) == Len(pat) = Len(s) /\ RegexMatchesAt(pat, s, 1)

\* POST /add-university up to the answer of University.findOne
AddUniversityFind(s, newUniversity) ==
    /\ pendingUni[s] = NoName
    /\ IF ~Authenticated(s)
       THEN /\ resp' = Reply("add-university", s, 302, "/login")
            /\ UNCHANGED pendingUni
       ELSE IF (\E n \in universities : RegexFullMatch(newUniversity, n)) \/ newUniversity = <<>>
       THEN /\ resp' = Reply("add-university", s, 302, "/")
            /\ UNCHANGED pendingUni
       ELSE /\ pendingUni' = [pendingUni EXCEPT ![s] = newUniversity]
            /\ resp' = Reply("add-university-find", s, 0, "")
    /\ UNCHANGED <<users, session, pending, items, nextItemId, now, universities, denied>>

\* POST /add-university from save(): the name is trimmed, must not be empty,
\* and the unique index rejects a name already stored
AddUniversitySave(s) ==
    /\ pendingUni[s] # NoName
    /\ pendingUni' = [pendingUni EXCEPT ![s] = NoName]
    /\ IF Trim(pendingUni[s]) = <<>> \/ Trim(pendingUni[s]) \in universities
       THEN UNCHANGED universities
       ELSE universities' = universities \cup {Trim(pendingUni[s])}
    /\ resp' = Reply("add-university", s, 302, "/")
    /\ UNCHANGED <<users, session, pending, items, nextItemId, now, denied>>

Init ==
    /\ users = <<>>
    /\ session = [s \in Sessions |-> NoUser]
    /\ pending = [s \in Sessions |-> NoBody]
    /\ pendingUni = [s \in Sessions |-> NoName]
    /\ items = {}
    /\ nextItemId = 1
    /\ now = 0
    /\ universities = {}
    /\ denied = {}
    /\ resp = NoResp

NextAuth ==
    \/ \E s \in Sessions, body \in SignupBodies : SignupFind(s, body)
    \/ \E s \in Sessions : SignupSave(s)
    \/ \E s \in Sessions, e \in Emails, p \in Passwords : Login(s, e, p)
    \/ \E s \in Sessions : Logout(s)

SpecAuth == Init /\ [][NextAuth]_vars

\* two accounts have signed up (and logged out): the state in which the
\* item handlers are exercised
Ann == [id |-> 1, name |-> "Ann", email |-> "ann@x.edu", password |-> StoredPassword("pw1")]
Bob == [id |-> 2, name |-> "Ann", email |-> "bob@x.edu", password |-> StoredPassword("pw2")]

InitItems ==
    /\ users = <<Ann, Bob>>
    /\ session = [s \in Sessions |-> NoUser]
    /\ pending = [s \in Sessions |-> NoBody]
    /\ pendingUni = [s \in Sessions |-> NoName]
    /\ items = {}
    /\ nextItemId = 1
    /\ now = 0
    /\ universities = {}
    /\ denied = {}
    /\ resp = NoResp

Next ==
    \/ \E s \in Browsers, e \in Emails, p \in Passwords : Login(s, e, p)
    \/ \E s \in Browsers : Logout(s)
    \/ \E s \in Browsers, u \in QueryUniversities, st \in QueryStatuses,
          q \in QuerySearches : ListItems(s, u, st, q)
    \/ \E s \in Browsers, id \in ItemIds \cup {BadId} : GetItem(s, id)
    \/ \E s \in Browsers : ReportForm(s)
    \/ \E s \in Browsers, f \in Forms, up \in Uploads : Report(s, f, up)
    \/ \E s \in Browsers : MyPosts(s)
    \/ \E s \in Browsers, id \in ItemIds \cup {BadId} : EditForm(s, id)
    \/ \E s \in Browsers, id \in ItemIds \cup {BadId}, f \in Forms, up \in Uploads :
          UpdateItem(s, id, f, up)
    \/ \E s \in Browsers, id \in ItemIds \cup {BadId} : DeleteItem(s, id) /\ UNCHANGED denied
    \/ SeedDB
    \/ Tick

Spec == InitItems /\ [][Next]_vars

(***************************************************************************)
(* Every handler at once, on small inputs, with the history needed to      *)
(* speak about earlier requests: denied holds the ids of the items whose   *)
(* deletion was refused to a user who is not their owner.                  *)
(***************************************************************************)
SmallForms == {V1, V2, [V1 EXCEPT !.status = "Stolen"]}
SmallUploads == {"none", "url1"}
SmallUniNames == {<<>>, <<"M">>}
SmallQueryUniversities == {<<>>, <<"M">>}

DeleteItemLogged(s, id) ==
    /\ DeleteItem(s, id)
    /\ denied' = IF resp'.status = 403 THEN denied \cup {id} ELSE denied

NextAll ==
    \/ \E s \in Browsers, e \in Emails, p \in Passwords : Login(s, e, p)
    \/ \E s \in Browsers : Logout(s)
    \/ \E s \in Browsers, n \in SmallUniNames : AddUniversityFind(s, n)
    \/ \E s \in Browsers : AddUniversitySave(s)
    \/ \E s \in Browsers, u \in SmallQueryUniversities : ListItems(s, u, "", <<>>)
    \/ \E s \in Browsers, id \in ItemIds \cup {BadId} : GetItem(s, id)
    \/ \E s \in Browsers : ReportForm(s)
    \/ \E s \in Browsers, f \in SmallForms, up \in SmallUploads : Report(s, f, up)
    \/ \E s \in Browsers : MyPosts(s)
    \/ \E s \in Browsers, id \in ItemIds \cup {BadId} : EditForm(s, id)
    \/ \E s \in Browsers, id \in ItemIds \cup {BadId}, f \in SmallForms, up \in SmallUploads :
          UpdateItem(s, id, f, up)
    \/ \E s \in Browsers, id \in ItemIds \cup {BadId} : DeleteItemLogged(s, id)
    \/ SeedDB

SpecAll == InitItems /\ [][NextAll]_vars

(***************************************************************************)
(* The university registry used by several sessions at once: the requests  *)
(* of different sessions interleave between the existence check and the    *)
(* save.                                                                   *)
(***************************************************************************)
NextUni ==
    \/ \E s \in Sessions, e \in Emails, p \in Passwords : Login(s, e, p)
    \/ \E s \in Sessions : Logout(s)
    \/ \E s \in Sessions, n \in UniNames : AddUniversityFind(s, n)
    \/ \E s \in Sessions : AddUniversitySave(s)

SpecUni == InitItems /\ [][NextUni]_vars

(***************************************************************************)
(* Vocabulary of the properties, stated on the stored records themselves.  *)
(***************************************************************************)
\* s contains sub as a substring, letter case ignored
ContainsIgnoreCase(s, sub) ==
    \E k \in 1..(Len(s) + 1) :
        /\ k + Len(sub) - 1 <= Len(s)
        /\ \A j \in 1..Len(sub) : Lower(sub[j]) = Lower(s[k + j - 1])

EmailTaken(email) == \E i \in 1..Len(users) : users[i].email = email

\* the account a session is bound to (0 when it is bound to none)
SessionUserId(s) ==
    IF \E i \in 1..Len(users) : session[s] = SessionUser(users[i])
    THEN users[CHOOSE i \in 1..Len(users) : session[s] = SessionUser(users[i])].id
    ELSE 0

ItemOf(S, id) == CHOOSE i \in S : i.id = id
ListIds(q) == {q[k] : k \in 1..Len(q)}
NoRepeats(q) == \A a, b \in 1..Len(q) : a # b => q[a] # q[b]
IsNewestFirst(S, q) ==
    \A a, b \in 1..Len(q) : a < b => ItemOf(S, q[a]).createdAt >= ItemOf(S, q[b]).createdAt
LoginRedirect(r) == r.status = 302 /\ r.loc \in {"/login", "/login?error=must_login"}
IsDuplicateEmail(r) == r.loc \in {"/login?error=email_exists", "duplicate_key"}
\* t is s without the spaces at its two ends
IsTrimOf(t, s) ==
    /\ t # <<>> => (t[1] # " " /\ t[Len(t)] # " ")
    /\ \E k \in 0..Len(s) :
          /\ k + Len(t) <= Len(s)
          /\ \A j \in 1..Len(s) :
                IF j > k /\ j <= k + Len(t) THEN s[j] = t[j - k] ELSE s[j] = " "
\* a and b are the same name up to letter case
EqualIgnoreCase(a, b) == Len(a) = Len(b) /\ \A j \in 1..Len(a) : Lower(a[j]) = Lower(b[j])
\* the registry entry e is an entry for the submitted name n: the same name
\* up to letter case and the spaces around n
IsEntryFor(e, n) ==
    \E k \in 0..Len(n) :
        /\ k + Len(e) <= Len(n)
        /\ \A j \in 1..Len(n) :
              IF j > k /\ j <= k + Len(e) THEN Lower(n[j]) = Lower(e[j - k]) ELSE n[j] = " "
\* the name has a character that is not a space
NotBlank(n) == \E j \in 1..Len(n) : n[j] # " "
FormComplete(f) ==
    /\ f.itemName # <<>> /\ f.description # <<>> /\ f.category # <<>>
    /\ f.university # <<>> /\ f.contactEmail # "" /\ f.contactPhone # ""

(***************************************************************************)
(* C1: an update or a delete of an item requested by an authenticated user *)
(* who is not the item's reportedBy is answered 403, and the items         *)
(* collection is the same after the request as before it.                  *)
(***************************************************************************)
C1_NonOwnerForbidden ==
    [][\A s \in Browsers, id \in ItemIds :
          (/\ resp'.op \in {"update", "delete"} /\ resp'.sid = s /\ resp'.id = id
           /\ SessionUserId(s) # 0
           /\ \E i \in items : i.id = id /\ i.reportedBy # SessionUserId(s))
          => \/ resp'.status = 403 /\ items' = items
             \/ ~(\/ \E f \in Forms, up \in Uploads : UpdateItem(s, id, f, up)
                  \/ DeleteItem(s, id))]_vars

C1_Witness ==
    /\ resp.op = "update" /\ resp.status = 403
    /\ SessionUserId(resp.sid) # 0
    /\ \E i \in items : i.id = resp.id /\ i.reportedBy # SessionUserId(resp.sid)

(***************************************************************************)
(* C2, as claimed: every further signup with an email that already belongs *)
(* to an account fails with DuplicateEmail and leaves the users unchanged.  *)
(***************************************************************************)
C2_AlwaysDuplicateEmail ==
    [][\A s \in Sessions :
          (resp'.sid = s /\ resp'.op \in {"signup", "signup-find"})
          => /\ \A body \in SignupBodies :
                   EmailTaken(body.email)
                   => \/ IsDuplicateEmail(resp') /\ users' = users /\ pending' = pending
                      \/ ~SignupFind(s, body)
             /\ EmailTaken(pending[s].email)
                => \/ IsDuplicateEmail(resp') /\ users' = users
                   \/ ~SignupSave(s)]_vars

(***************************************************************************)
(* C2, amended: a further signup with an email that already belongs to an  *)
(* account fails with DuplicateEmail when its name and password are not    *)
(* empty, and with the all-fields-required error when one of them is; in   *)
(* both cases no user record is created and none is changed.               *)
(***************************************************************************)
C2_DuplicateOrFieldsRequired ==
    [][\A s \in Sessions :
          (resp'.sid = s /\ resp'.op \in {"signup", "signup-find"})
          => /\ \A body \in SignupBodies :
                   EmailTaken(body.email)
                   => \/ /\ users' = users /\ pending' = pending
                         /\ IF body.name # "" /\ body.password # ""
                            THEN IsDuplicateEmail(resp')
                            ELSE resp'.loc = "fields_required"
                      \/ ~SignupFind(s, body)
             /\ EmailTaken(pending[s].email)
                => \/ IsDuplicateEmail(resp') /\ users' = users
                   \/ ~SignupSave(s)]_vars

C2_Witness ==
    /\ resp.op = "signup" /\ resp.loc = "/login?error=email_exists"
    /\ Len(users) >= 1

(***************************************************************************)
(* C3: after a successful signup the stored password is not the plaintext  *)
(* password that was submitted.                                            *)
(***************************************************************************)
C3_PasswordNotPlaintext ==
    [][\A s \in Sessions :
          (SignupSave(s) /\ Len(users') = Len(users) + 1)
          => users'[Len(users')].password # pending[s].password]_vars

(***************************************************************************)
(* C4: a login succeeds exactly when a user with that exact email exists   *)
(* and the password is that user's; on success the session is bound to     *)
(* that user's id; otherwise the session keeps the identity it had.        *)
(***************************************************************************)
C4_LoginExactlyWhenCredentialsMatch ==
    [][\A s \in Sessions :
          (resp'.sid = s /\ resp'.op = "login")
          => \A e \in Emails, p \in Passwords :
                Login(s, e, p)
                => IF \E i \in 1..Len(users) : users[i].email = e /\ users[i].password = p
                   THEN /\ resp'.status = 302 /\ resp'.loc = "/"
                        /\ \E i \in 1..Len(users) :
                              /\ users[i].email = e
                              /\ session'[s].id = OidToString(users[i].id)
                   ELSE /\ resp'.loc = "invalid"
                        /\ session' = session]_vars

C4_Witness ==
    /\ resp.op = "login" /\ resp.status = 302
    /\ SessionUserId(resp.sid) # 0
    /\ Len(users) = 2

(***************************************************************************)
(* C5: every protected action issued by a session without an identity is   *)
(* answered with a redirect to the login page and changes no user, item or *)
(* university record.                                                      *)
(***************************************************************************)
C5_ProtectedRedirectsToLogin ==
    [][\A s \in Browsers :
          session[s] = NoUser
          => \/ /\ LoginRedirect(resp')
                /\ users' = users /\ items' = items /\ universities' = universities
                /\ pendingUni' = pendingUni
             \/ ~(\/ \E n \in SmallUniNames : AddUniversityFind(s, n)
                  \/ \E u \in SmallQueryUniversities : ListItems(s, u, "", <<>>)
                  \/ ReportForm(s)
                  \/ \E f \in SmallForms, up \in SmallUploads : Report(s, f, up)
                  \/ MyPosts(s)
                  \/ \E id \in ItemIds \cup {BadId} : EditForm(s, id)
                  \/ \E id \in ItemIds \cup {BadId}, f \in SmallForms, up \in SmallUploads :
                        UpdateItem(s, id, f, up)
                  \/ \E id \in ItemIds \cup {BadId} : DeleteItem(s, id))]_vars

C5_Witness ==
    /\ resp.op = "delete" /\ LoginRedirect(resp)
    /\ session[resp.sid] = NoUser
    /\ \E i \in items : i.id = resp.id

(***************************************************************************)
(* C6: the owner's delete of an existing item succeeds, whether or not a   *)
(* delete by another user was refused before; a delete by another user is  *)
(* answered 403 and removes nothing; once an item is gone it stays gone:    *)
(* its id is never stored again, getById answers 404 and no listing shows  *)
(* it.                                                                     *)
(***************************************************************************)
C6_DeletedStaysDeleted ==
    [][/\ \A s \in Browsers, id \in ItemIds :
            (DeleteItem(s, id) /\ SessionUserId(s) # 0 /\ (\E i \in items : i.id = id))
            => IF ItemOf(items, id).reportedBy = SessionUserId(s)
               THEN resp'.status = 302 /\ items' = items \ {ItemOf(items, id)}
               ELSE resp'.status = 403 /\ items' = items
       /\ \A id \in ItemIds :
            (id < nextItemId /\ ~(\E i \in items : i.id = id))
            => /\ ~(\E i \in items' : i.id = id)
               /\ \A s \in Browsers : GetItem(s, id) => resp'.status = 404
               /\ (resp'.op \in {"items", "my-posts"} => id \notin ListIds(resp'.list))]_vars

C6_Witness ==
    /\ resp.op = "delete" /\ resp.status = 302
    /\ resp.id \in denied
    /\ ~(\E i \in items : i.id = resp.id)

(***************************************************************************)
(* C7: the my-posts page lists exactly the existing items whose reportedBy *)
(* is the session's user, each once, newest first.                         *)
(***************************************************************************)
C7_MyPostsExactlyOwn ==
    (resp.op = "my-posts" /\ resp.status = 200)
    => /\ ListIds(resp.list) = {i.id : i \in {j \in items : j.reportedBy = SessionUserId(resp.sid)}}
       /\ NoRepeats(resp.list)
       /\ IsNewestFirst(items, resp.list)

C7_Witness ==
    /\ resp.op = "my-posts" /\ resp.status = 200
    /\ Len(resp.list) = 2
    /\ ItemOf(items, resp.list[1]).createdAt > ItemOf(items, resp.list[2]).createdAt

(***************************************************************************)
(* C8: the items page of university X never shows an item whose            *)
(* university is not exactly X.                                            *)
(***************************************************************************)
C8_ListOnlyThatUniversity ==
    [][(resp'.op = "items" /\ resp'.status = 200)
       => \A s \in Browsers, u \in QueryUniversities :
             \/ \A id \in ListIds(resp'.list) :
                   /\ \E i \in items' : i.id = id
                   /\ ItemOf(items', id).university = u
             \/ ~(\E st \in QueryStatuses, q \in QuerySearches : ListItems(s, u, st, q))]_vars

C8_Witness ==
    /\ resp.op = "items" /\ resp.status = 200
    /\ Len(resp.list) = 1
    /\ \E i \in items : i.id \notin ListIds(resp.list) /\ i.university # ItemOf(items, resp.list[1]).university

(***************************************************************************)
(* C9: the items page shows exactly the items of the given university,     *)
(* with the given status when one is given, whose name contains the search *)
(* text as a case-insensitive substring when one is given, newest first.   *)
(***************************************************************************)
C9_ListExactlyMatching ==
    [][\A s \in Browsers, u \in QueryUniversities, st \in QueryStatuses, q \in QuerySearches :
          (resp'.op = "items" /\ resp'.status = 200 /\ ListItems(s, u, st, q))
          => /\ ListIds(resp'.list) =
                   {i.id : i \in {j \in items :
                        /\ j.university = u
                        /\ (st # "" => j.status = st)
                        /\ (q # <<>> => ContainsIgnoreCase(j.name, q))}}
             /\ NoRepeats(resp'.list)
             /\ IsNewestFirst(items, resp'.list)]_vars

(***************************************************************************)
(* C10: a report stores a new item only when every required field is       *)
(* present, the status is Lost or Found and the upload returned a URL, and *)
(* the stored item's reportedBy is the session's user; a report with a     *)
(* missing field, another status, no image or a failed upload is answered  *)
(* with an error and leaves the items unchanged.                           *)
(***************************************************************************)
C10_ReportValidated ==
    [][resp'.op = "report"
       => \A s \in Browsers, f \in Forms, up \in Uploads :
             \/ /\ items' # items
                   => /\ FormComplete(f) /\ f.status \in {"Lost", "Found"} /\ up \in Urls
                      /\ \E i \in items' :
                           /\ items' = items \cup {i} /\ i \notin items
                           /\ i.reportedBy = SessionUserId(s)
                           /\ i.imageUrl = up
                /\ (~FormComplete(f) \/ f.status \notin {"Lost", "Found"} \/ up \notin Urls)
                   => resp'.status = 500 /\ items' = items
             \/ ~(Report(s, f, up) /\ SessionUserId(s) # 0)]_vars

C10_Witness ==
    /\ resp.op = "report" /\ resp.status = 302
    /\ \E i \in items : i.id = resp.id /\ i.reportedBy = SessionUserId(resp.sid)

(***************************************************************************)
(* C11, as claimed: a successful update by the owner sets name,            *)
(* description, status, category, university, contactEmail and             *)
(* contactPhone to the submitted values, replaces imageUrl exactly when a  *)
(* new image was supplied, and leaves reportedBy and createdAt as they     *)
(* were.                                                                   *)
(***************************************************************************)
C11_SetsSubmittedValues ==
    [][(resp'.op = "update" /\ resp'.status = 302 /\ resp'.loc = "/my-posts")
       => \A s \in Browsers, id \in ItemIds, f \in Forms, up \in Uploads :
             \/ resp'.sid # s \/ resp'.id # id
             \/ ~UpdateItem(s, id, f, up)
             \/ \E old \in items, new \in items' :
                   /\ old.id = id /\ new.id = id
                   /\ items' = (items \ {old}) \cup {new}
                   /\ new.name = f.itemName /\ new.description = f.description
                   /\ new.status = f.status /\ new.category = f.category
                   /\ new.university = f.university
                   /\ new.contactEmail = f.contactEmail
                   /\ new.contactPhone = f.contactPhone
                   /\ new.imageUrl = (IF up \in Urls THEN up ELSE old.imageUrl)
                   /\ new.reportedBy = old.reportedBy /\ new.createdAt = old.createdAt]_vars

(***************************************************************************)
(* C11, amended: a successful update by the owner sets name, description,  *)
(* category and university to the submitted values without the spaces at   *)
(* their two ends, sets status, contactEmail and contactPhone to the       *)
(* submitted values, replaces imageUrl exactly when a new image was        *)
(* supplied, and leaves reportedBy and createdAt as they were; no other    *)
(* item changes.                                                           *)
(***************************************************************************)
C11_SetsTrimmedValues ==
    [][(resp'.op = "update" /\ resp'.status = 302 /\ resp'.loc = "/my-posts")
       => \A s \in Browsers, id \in ItemIds, f \in Forms, up \in Uploads :
             \/ resp'.sid # s \/ resp'.id # id
             \/ ~UpdateItem(s, id, f, up)
             \/ \E old \in items, new \in items' :
                   /\ old.id = id /\ new.id = id
                   /\ items' = (items \ {old}) \cup {new}
                   /\ IsTrimOf(new.name, f.itemName)
                   /\ IsTrimOf(new.description, f.description)
                   /\ new.status = f.status
                   /\ IsTrimOf(new.category, f.category)
                   /\ IsTrimOf(new.university, f.university)
                   /\ new.contactEmail = f.contactEmail
                   /\ new.contactPhone = f.contactPhone
                   /\ new.imageUrl = (IF up \in Urls THEN up ELSE old.imageUrl)
                   /\ new.reportedBy = old.reportedBy /\ new.createdAt = old.createdAt]_vars

\* an update has just replaced the image, the name and the status of an item
\* that the user of the session reported earlier, and another item is stored
C11_Witness ==
    /\ resp.op = "update" /\ resp.status = 302 /\ resp.loc = "/my-posts"
    /\ \E i \in items :
          /\ i.id = resp.id /\ i.reportedBy = SessionUserId(resp.sid)
          /\ i.status = "Found" /\ i.imageUrl = "url2" /\ i.name = <<"b">>
          /\ i.createdAt < now
    /\ Cardinality(items) = 2

(***************************************************************************)
(* C12: the item page, an update and a delete asked for an id that names   *)
(* no stored item are answered 404 to every logged-in requester (and, the  *)
(* item page being public, to every requester), whoever the requester is,  *)
(* and change no user, item or university record.                          *)
(***************************************************************************)
C12_AbsentIdNotFound ==
    [][\A s \in Browsers, id \in ItemIds \cup {BadId} :
          (/\ resp'.op \in {"item", "update", "delete"} /\ resp'.sid = s /\ resp'.id = id
           /\ ~(\E i \in items : i.id = id)
           /\ (resp'.op = "item" \/ SessionUserId(s) # 0))
          => \/ /\ resp'.status = 404
                /\ items' = items /\ users' = users /\ universities' = universities
             \/ ~(\/ GetItem(s, id)
                  \/ \E f \in Forms, up \in Uploads : UpdateItem(s, id, f, up)
                  \/ DeleteItem(s, id))]_vars

(***************************************************************************)
(* C13: an add-university request for a name that is not empty, served     *)
(* with no other request in between on a registry that holds at most one   *)
(* entry for the name, leaves exactly one registry entry for that name up  *)
(* to letter case; when the registry already held an entry for the name    *)
(* (an earlier add of the name in any letter case), the registry stays as  *)
(* it was, so the entry keeps the casing of the first add.                 *)
(***************************************************************************)
C13_AddIdempotentUpToCase ==
    [][\A s \in Sessions :
          (resp'.op = "add-university" /\ resp'.sid = s /\ resp'.loc = "/")
          => /\ \A n \in UniNames :
                   (/\ NotBlank(n) /\ pendingUni[s] = NoName
                    /\ Cardinality({e \in universities : IsEntryFor(e, n)}) <= 1)
                   => \/ /\ Cardinality({e \in universities' : IsEntryFor(e, n)}) = 1
                         /\ (\E e \in universities : IsEntryFor(e, n))
                               => universities' = universities
                      \/ ~AddUniversityFind(s, n)
             /\ (/\ pendingUni[s] # NoName /\ NotBlank(pendingUni[s])
                 /\ resp.op = "add-university-find" /\ resp.sid = s
                 /\ Cardinality({e \in universities : IsEntryFor(e, pendingUni[s])}) <= 1)
                => \/ /\ Cardinality({e \in universities' : IsEntryFor(e, pendingUni[s])}) = 1
                      /\ (\E e \in universities : IsEntryFor(e, pendingUni[s]))
                            => universities' = universities
                   \/ ~AddUniversitySave(s)]_vars

(***************************************************************************)
(* C14: in every reachable state, whatever the interleaving of the         *)
(* add-university requests of the sessions, no two entries of the registry *)
(* have names that are equal up to letter case.                            *)
(***************************************************************************)
C14_NoTwoEntriesEqualIgnoringCase ==
    \A a, b \in universities : a # b => ~EqualIgnoreCase(a, b)

(***************************************************************************)
(* C15: a logout leaves the session without an identity; a session without *)
(* an identity gets one again only by a successful login or signup made on *)
(* that session; and as long as it has none, every protected request made  *)
(* with it is answered with a redirect to the login page and no item is    *)
(* created, updated or deleted.                                            *)
(***************************************************************************)
C15_LoggedOutUntilLogin ==
    [][\A s \in Browsers :
          /\ (resp'.op = "logout" /\ resp'.sid = s)
                => (session'[s] = NoUser \/ ~Logout(s))
          /\ (session[s] = NoUser /\ session'[s] # NoUser)
                => /\ resp'.sid = s /\ resp'.op \in {"login", "signup"}
                   /\ resp'.status = 302 /\ resp'.loc = "/"
          /\ session[s] = NoUser
                => \/ /\ LoginRedirect(resp') /\ session'[s] = NoUser
                      /\ items' = items /\ nextItemId' = nextItemId
                   \/ ~(\/ \E n \in SmallUniNames : AddUniversityFind(s, n)
                        \/ \E u \in SmallQueryUniversities : ListItems(s, u, "", <<>>)
                        \/ ReportForm(s)
                        \/ \E f \in SmallForms, up \in SmallUploads : Report(s, f, up)
                        \/ MyPosts(s)
                        \/ \E id \in ItemIds \cup {BadId} : EditForm(s, id)
                        \/ \E id \in ItemIds \cup {BadId}, f \in SmallForms, up \in SmallUploads :
                              UpdateItem(s, id, f, up)
                        \/ \E id \in ItemIds \cup {BadId} : DeleteItem(s, id))]_vars

\* the session that reported the stored items has logged out since, and its
\* request to update one of them has just been sent to the login page
C15_Witness ==
    /\ resp.op = "update" /\ LoginRedirect(resp)
    /\ session[resp.sid] = NoUser
    /\ \E i \in items : i.id = resp.id
    /\ Cardinality(items) = 2

C17_OneUserPerEmail ==
    \A a, b \in 1..Len(users) : a # b => users[a].email # users[b].email

\* a signup passed the existence check, another signup with the same email
\* was saved in between, and the first one's save has just been rejected
C17_Witness ==
    /\ resp.op = "signup" /\ resp.loc = "duplicate_key"
    /\ Len(users) = 1
    /\ session[resp.sid] = NoUser
    /\ \E s \in Sessions : session[s] = SessionUser(users[1])

(***************************************************************************)
(* C18: an update asked by the owner of an existing item whose image       *)
(* upload fails, or whose form misses a required field or carries a status *)
(* other than Lost and Found, is answered with an error, and every stored  *)
(* item, the one asked for included, is as it was before the request.      *)
(***************************************************************************)
C18_FailedUpdateKeepsItem ==
    [][resp'.op = "update"
       => \/ resp'.status = 500 /\ items' = items
          \/ \A s \in Browsers, id \in ItemIds :
                (/\ resp'.sid = s /\ resp'.id = id
                 /\ SessionUserId(s) # 0
                 /\ \E i \in items : i.id = id /\ i.reportedBy = SessionUserId(s))
                => \A f \in Forms, up \in Uploads :
                      (\/ up = "fail"
                       \/ ~NotBlank(f.itemName) \/ ~NotBlank(f.description)
                       \/ ~NotBlank(f.category) \/ ~NotBlank(f.university)
                       \/ f.contactEmail = "" \/ f.contactPhone = ""
                       \/ f.status \notin {"Lost", "Found"})
                      => ~UpdateItem(s, id, f, up)]_vars

\* the owner's update of an item that had been updated before has just ended
\* in an error
C18_Witness ==
    /\ resp.op = "update" /\ resp.status = 500
    /\ \E i \in items :
          /\ i.id = resp.id /\ i.reportedBy = SessionUserId(resp.sid)
          /\ i.status = "Found" /\ i.name = <<"b">> /\ i.imageUrl = "url1"

====
